---- MODULE Spec2Model ----
(***************************************************************************)
(* Interaction engine of AutoCHAD (src/autochad.py): the selection         *)
(* manager, the undo/redo manager, the drawing tools and the canvas event  *)
(* delegate, as a state machine over the editor's objects.                 *)
(*                                                                         *)
(* src/autochad.py holds an unresolved merge: every region between         *)
(* "<<<<<<< codex/..." and "=======" belongs to the build "codex" (WALL,   *)
(* WINDOW, DOOR, SWITCH, OUTLET; undo and redo), every region between      *)
(* "=======" and ">>>>>>> main" to the build "main" (LINE, RECTANGLE,      *)
(* CIRCLE; undo only).  The variable build selects the side; the lines     *)
(* outside the markers are shared by both builds.                          *)
(*                                                                         *)
(* Representation.  Graphics items are object identities 1..MaxItems; an   *)
(* object lives while something refers to it (scene, tool preview,         *)
(* selection, history closures).  Identities are opaque, the program only  *)
(* tests them with "is": a state is stored with its live objects numbered  *)
(* in the order in which scene, previews, history and selection refer to   *)
(* them.  Reference None is 0, a missing point is <<>>, a missing pen is   *)
(* NoPen, a missing closure is NoAction.  Scene coordinates are integers;  *)
(* a pen width is in tenths.                                               *)
(***************************************************************************)
EXTENDS Integers, Sequences, FiniteSets, TLC

\* Bound of the model: the number of graphics items alive at one time.
MaxItems == 3

\* src/autochad.py:81
GRID_SIZE == 25

None == 0
NoPoint == <<>>
NoTool == "None"

Ids == 1..MaxItems

Builds == {"codex", "main"}

\* MainWindow.__init__: the keys of self.tools on each side of the merge.
ToolsOf(b) ==
  IF b = "codex" THEN {"WALL", "WINDOW", "DOOR", "SWITCH", "OUTLET"}
  ELSE {"LINE", "RECTANGLE", "CIRCLE"}

AllTools == ToolsOf("codex") \cup ToolsOf("main")

\* Subclasses of WallAttachmentTool.
AttachmentTools == {"SWITCH", "OUTLET"}

\* The names a user can hand to activate_tool: the eight tool names and one
\* name that is no tool.
ToolNames == AllTools \cup {"BOGUS"}

\* The tools a user works with in one session: a session activates the
\* tools of one of these sets (and any name its build does not know).
Palettes(b) ==
  IF b = "codex"
  THEN {{"WALL", "SWITCH"}, {"WINDOW", "OUTLET"}, {"DOOR", "WALL"}}
  ELSE {{"LINE", "RECTANGLE"}, {"CIRCLE", "LINE"}}

\* Pointer positions (already mapped into the scene by view_to_scene).
Pointer == {<<0, 0>>}

\* The pointer positions of a session that draws a plan: one on the grid and
\* one off it, so that snapping moves it, and off the walls they make.
PlanPoints == {<<0, 0>>, <<97, 3>>}

\* The live objects of a session that draws a plan.
MaxPlanItems == 3

VARIABLES
  build,          \* which side of the merge is built
  palette,        \* the tools this session's user works with
  closed,         \* closeEvent has run
  active_tool,    \* CanvasEventDelegate.active_tool
  ortho_active,   \* CanvasEventDelegate.ortho_active
  tool_start,     \* per tool: _start / _origin / _center
  preview_item,   \* per tool: CanvasTool.preview_item
  scene,          \* the items of the QGraphicsScene
  items,          \* the fields of every live item
  current,        \* SelectionManager.current
  previous_pen,   \* SelectionManager._previous_pen
  shown,          \* the value last handed to on_change (PropertiesPanel)
  undo_stack,     \* UndoManager._undo (codex) / UndoManager._stack (main)
  redo_stack,     \* UndoManager._redo (codex)
  pointer         \* the position of the last mouse event, event.pos()

vars == <<build, palette, closed, active_tool, ortho_active, tool_start,
          preview_item, scene, items, current, previous_pen, shown,
          undo_stack, redo_stack, pointer>>

----------------------------------------------------------------------------
\* Pens

Pen(color, width, style, cosmetic) ==
  [color |-> color, width |-> width, style |-> style, cosmetic |-> cosmetic]

NoPen == Pen("none", 0, "none", FALSE)

Max(a, b) == IF a >= b THEN a ELSE b
Min(a, b) == IF a <= b THEN a ELSE b
Abs(a) == IF a >= 0 THEN a ELSE -a

\* The pen each item class gives itself in __init__ (codex), or that the
\* committing tool sets (main: QPen(QColor(0, 0, 0), 1.5)).
ClassPen(cls) ==
  CASE cls = "WallItem" -> Pen("0,90,180", 20, "solid", TRUE)
    [] cls = "WindowItem" -> Pen("220,60,60", 20, "solid", TRUE)
    [] cls = "DoorItem" -> Pen("120,120,120", 20, "solid", TRUE)
    [] cls \in {"SwitchItem", "OutletItem"} -> Pen("200,40,40", 20, "solid", TRUE)
    [] OTHER -> Pen("0,0,0", 15, "solid", FALSE)

\* The pen of a tool's preview: the class pen with a dash style (codex), or
\* QPen(QColor(0, 120, 215)) with a dash style (main).
PreviewPen(cls) ==
  IF cls \in {"WallItem", "WindowItem", "DoorItem", "SwitchItem", "OutletItem"}
  THEN [ClassPen(cls) EXCEPT !.style = "dash"]
  ELSE Pen("0,120,215", 10, "dash", FALSE)

\* SelectionManager.select: highlight = QPen(color), width max(2.0, pen.widthF()).
HighlightPen(b, pen) ==
  Pen(IF b = "codex" THEN "255,120,0" ELSE "255,0,0", Max(20, pen.width), "solid", FALSE)

----------------------------------------------------------------------------
\* Geometry

RECURSIVE Gcd(_, _)
Gcd(a, b) == IF b = 0 THEN a ELSE Gcd(b, a % b)

\* Python 3 round(x / g) for an integer x: nearest integer, a tie to the even one.
PyRoundDiv(x, g) ==
  LET q == x \div g
      r == x % g
  IN  IF 2 * r < g THEN q
      ELSE IF 2 * r > g THEN q + 1
      ELSE IF q % 2 = 0 THEN q ELSE q + 1

\* CanvasEventDelegate.snap_enabled is set in __init__ and never changed.
snap_enabled == TRUE

\* round(x / GRID_SIZE) * GRID_SIZE of the coordinate x = n / d (d > 0)
snap_coordinate(n, d) == PyRoundDiv(n, d * GRID_SIZE) * GRID_SIZE

\* snap_position that takes the grid line below each coordinate
snap_position_floor(pos) ==
  <<(pos[1] \div GRID_SIZE) * GRID_SIZE, (pos[2] \div GRID_SIZE) * GRID_SIZE>>

snap_position(pos) ==
  IF ~snap_enabled THEN pos
  ELSE <<snap_coordinate(pos[1], 1), snap_coordinate(pos[2], 1)>>

\* apply_ortho with "if dx > dy"
apply_ortho_tie_vertical(ortho, pos, origin) ==
  IF ~ortho \/ origin = NoPoint THEN pos
  ELSE LET dx == Abs(pos[1] - origin[1])
           dy == Abs(pos[2] - origin[2])
       IN  IF dx > dy THEN <<pos[1], origin[2]>> ELSE <<origin[1], pos[2]>>

apply_ortho(ortho, pos, origin) ==
  IF ~ortho \/ origin = NoPoint THEN pos
  ELSE LET dx == Abs(pos[1] - origin[1])
           dy == Abs(pos[2] - origin[2])
       IN  IF dx >= dy THEN <<pos[1], origin[2]>> ELSE <<origin[1], pos[2]>>

\* A point with rational coordinates <<xn / d, yn / d>>, in lowest terms.
Rational(xn, yn, d) ==
  LET g == Gcd(Gcd(Abs(xn), Abs(yn)), d)
  IN  <<xn \div g, yn \div g, d \div g>>

\* clamp that returns the value as it is
clamp_none(num, den) == num

\* clamp(value, 0.0, 1.0) of the fraction num / den (den > 0), as a numerator.
clamp(num, den) == Max(0, Min(den, num))

\* WallItem.project_point, for a wall with centerline start-end.
project_point(start, end, pos) ==
  IF start = end THEN <<start[1], start[2], 1>>
  ELSE LET dx == end[1] - start[1]
           dy == end[2] - start[2]
           den == dx * dx + dy * dy
           t == clamp((pos[1] - start[1]) * dx + (pos[2] - start[2]) * dy, den)
       IN  Rational(start[1] * den + dx * t, start[2] * den + dy * t, den)

\* QLineF(pos, projected).length(), squared, as the fraction <<n, d>>.
Dist2(pos, proj) ==
  LET ex == pos[1] * proj[3] - proj[1]
      ey == pos[2] * proj[3] - proj[2]
  IN  <<ex * ex + ey * ey, proj[3] * proj[3]>>

FracLess(a, b) == a[1] * b[2] < b[1] * a[2]

\* -QLineF(start, end).angle(), the rotation update_geometry gives an item,
\* as the direction of the line in lowest terms (a null line has angle 0).
Rotation(start, end) ==
  LET dx == end[1] - start[1]
      dy == end[2] - start[2]
      g == Gcd(Abs(dx), Abs(dy))
  IN  IF g = 0 THEN <<1, 0>> ELSE <<dx \div g, dy \div g>>

\* QRectF(a, b).normalized() as <<x, y, width, height>>.
NormalizedRect(a, b) ==
  <<Min(a[1], b[1]), Min(a[2], b[2]), Abs(b[1] - a[1]), Abs(b[2] - a[2])>>

\* math.hypot(dx, dy), kept exact as its square.
Hypot2(a, b) == (b[1] - a[1]) * (b[1] - a[1]) + (b[2] - a[2]) * (b[2] - a[2])

\* The largest k of lo..hi with k * k <= n
RECURSIVE IsqrtIn(_, _, _)
IsqrtIn(n, lo, hi) ==
  IF lo = hi THEN lo
  ELSE LET mid == (lo + hi + 1) \div 2
       IN  IF mid * mid <= n THEN IsqrtIn(n, mid, hi) ELSE IsqrtIn(n, lo, mid - 1)

\* QLineF(start, end).length() in hundredths, rounded to the nearest one
\* (100 * length is a whole number or irrational, never halfway)
Hundredths(start, end) ==
  LET n == 10000 * Hypot2(start, end)
      k == IsqrtIn(n, 0, 100 * (Abs(end[1] - start[1]) + Abs(end[2] - start[2])))
  IN  IF n - k * k > k THEN k + 1 ELSE k

\* f"{x:.2f}" of x = h / 100, h >= 0
Fixed2(h) ==
  ToString(h \div 100) \o "." \o ToString((h % 100) \div 10) \o ToString(h % 10)

\* WallItem._update_label: the text of the label that update_geometry
\* gives a wall, f"{length:.2f}" of length = max(1.0, line.length())
label_text(start, end) == Fixed2(Max(100, Hundredths(start, end)))

----------------------------------------------------------------------------
\* Graphics items

SegmentClasses == {"WallItem", "WindowItem", "DoorItem"}
AttachmentClasses == {"SwitchItem", "OutletItem"}

\* WallItem / WindowItem / DoorItem(start, end): the defining endpoints.
SegmentItem(cls, start, end, pen) ==
  [cls |-> cls, pen |-> pen, geom |-> [start |-> start, end |-> end]]

\* SwitchItem() / OutletItem(): position and rotation are set by the tool.
AttachmentItem(cls, pos, rotation, pen) ==
  [cls |-> cls, pen |-> pen, geom |-> [pos |-> pos, rotation |-> rotation]]

\* DimensionLineItem(x1, y1, x2, y2); DimensionLineItem() is the null line.
DimensionLineItem(p1, p2, pen) ==
  [cls |-> "DimensionLineItem", pen |-> pen, geom |-> [p1 |-> p1, p2 |-> p2]]

\* DimensionRectItem(rect); DimensionRectItem() is the null rectangle.
DimensionRectItem(rect, pen) ==
  [cls |-> "DimensionRectItem", pen |-> pen, geom |-> [rect |-> rect]]

\* QGraphicsEllipseItem(rect), the rectangle (center - r, center - r, 2r, 2r)
\* kept as its center and the square of r.
EllipseItem(center, r2, pen) ==
  [cls |-> "QGraphicsEllipseItem", pen |-> pen, geom |-> [center |-> center, r2 |-> r2]]

\* The item class a tool builds (preview and committed shape alike).
ItemClass(tool) ==
  CASE tool = "WALL" -> "WallItem"
    [] tool = "WINDOW" -> "WindowItem"
    [] tool = "DOOR" -> "DoorItem"
    [] tool = "SWITCH" -> "SwitchItem"
    [] tool = "OUTLET" -> "OutletItem"
    [] tool = "LINE" -> "DimensionLineItem"
    [] tool = "RECTANGLE" -> "DimensionRectItem"
    [] OTHER -> "QGraphicsEllipseItem"

----------------------------------------------------------------------------
\* The scene: its items in insertion order (QGraphicsScene.items() lists
\* them in descending stacking order, the item added last first).

Range(s) == {s[k] : k \in 1..Len(s)}

\* QGraphicsScene.addItem: an item already in the scene is not added again.
addItem(sc, i) == IF i \in Range(sc) THEN sc ELSE Append(sc, i)

\* QGraphicsScene.removeItem: an item that is not in the scene is ignored.
removeItem(sc, i) == SelectSeq(sc, LAMBDA x : x # i)

----------------------------------------------------------------------------
\* The editor's objects as one record, so that a handler is a function from
\* the state before it to the state after it.  Three fields are the handler's
\* outputs and no state: report is what it told the user (a message box or a
\* printed line, "" for nothing), result is the branch it took, notified is
\* the values it handed to the selection observer on_change, in order.

Never == -1

Cur ==
  [build |-> build, active |-> active_tool, ortho |-> ortho_active,
   start |-> tool_start, preview |-> preview_item,
   scene |-> scene, items |-> items, current |-> current,
   previous_pen |-> previous_pen, shown |-> shown,
   undo |-> undo_stack, redo |-> redo_stack, report |-> "", result |-> "",
   notified |-> <<>>]

\* The identity of a newly constructed object: one that no live object has.
NewId(m) ==
  LET free == (1..(Cardinality(DOMAIN m.items) + 1)) \ DOMAIN m.items
  IN  CHOOSE i \in free : \A j \in free : i <= j

\* Constructing an item: the object exists, in no scene yet.
Construct(m, i, item) == [m EXCEPT !.items = (i :> item) @@ m.items]

----------------------------------------------------------------------------
\* SelectionManager

\* _clear_highlight without its self.current.setPen(self._previous_pen)
clear_highlight_no_restore(m) == [m EXCEPT !.current = None, !.previous_pen = NoPen]

\* SelectionManager._clear_highlight
clear_highlight(m) ==
  LET restored ==
        IF m.current # None /\ m.previous_pen # NoPen
        THEN [m EXCEPT !.items[m.current].pen = m.previous_pen]
        ELSE m
  IN  [restored EXCEPT !.current = None, !.previous_pen = NoPen]

\* select without its self._clear_highlight() for an item
select_no_clear(m, item) ==
  IF item = None
  THEN [clear_highlight(m) EXCEPT !.current = None, !.shown = None,
                                  !.notified = Append(m.notified, None)]
  ELSE [m EXCEPT !.current = item,
                 !.previous_pen = m.items[item].pen,
                 !.items[item].pen = HighlightPen(m.build, m.items[item].pen),
                 !.shown = item,
                 !.notified = Append(m.notified, item)]

\* select without its self.on_change(None)
select_silent_none(m, item) ==
  LET c == clear_highlight(m)
  IN  IF item = None
      THEN [c EXCEPT !.current = None]
      ELSE LET pen == c.items[item].pen
           IN  [c EXCEPT !.current = item,
                         !.previous_pen = pen,
                         !.items[item].pen = HighlightPen(m.build, pen),
                         !.shown = item,
                         !.notified = Append(m.notified, item)]

\* SelectionManager.select
select(m, item) ==
  LET c == clear_highlight(m)
  IN  IF item = None
      THEN [c EXCEPT !.current = None, !.shown = None,
                     !.notified = Append(m.notified, None)]
      ELSE LET pen == c.items[item].pen
           IN  [c EXCEPT !.current = item,
                         !.previous_pen = pen,
                         !.items[item].pen = HighlightPen(m.build, pen),
                         !.shown = item,
                         !.notified = Append(m.notified, item)]

----------------------------------------------------------------------------
\* History closures.  Every closure the program pushes is one of two shapes:
\*   "remove": if selection.current is item: select(None); scene.removeItem(item)
\*   "add":    scene.addItem(item); selection.select(item)
\* A closure calls into the selection manager and the scene.  fault says
\* which of its calls raises: 0 for none, k for the k-th call it makes (a
\* closure that makes fewer calls completes).  A closure that raised leaves
\* result = "raised".

Action(fn, item) == [fn |-> fn, item |-> item]

NoAction == Action("None", None)

Faults == {1, 2}

\* run_remove without its "if current is item: select(None)"
run_remove_keeps_selection(m, item, fault) ==
  IF fault = 1 THEN [m EXCEPT !.result = "raised"]
  ELSE [m EXCEPT !.scene = removeItem(m.scene, item), !.result = "ran"]

\* run_remove without its scene.removeItem(item)
run_remove_keeps_item(m, item, fault) ==
  IF fault = 1 THEN [m EXCEPT !.result = "raised"]
  ELSE [(IF m.current = item THEN select(m, None) ELSE m) EXCEPT !.result = "ran"]

\* The undo closure of a creation, the remove_again closure of a deletion.
run_remove(m, item, fault) ==
  IF m.current = item
  THEN IF fault = 1 THEN [m EXCEPT !.result = "raised"]
       ELSE LET d == select(m, None)
            IN  IF fault = 2 THEN [d EXCEPT !.result = "raised"]
                ELSE [d EXCEPT !.scene = removeItem(d.scene, item), !.result = "ran"]
  ELSE IF fault = 1 THEN [m EXCEPT !.result = "raised"]
       ELSE [m EXCEPT !.scene = removeItem(m.scene, item), !.result = "ran"]

\* The redo closure of a creation, the restore closure of a deletion.
run_add(m, item, fault) ==
  IF fault = 1 THEN [m EXCEPT !.result = "raised"]
  ELSE LET a == [m EXCEPT !.scene = addItem(m.scene, item)]
       IN  IF fault = 2 THEN [a EXCEPT !.result = "raised"]
           ELSE [select(a, item) EXCEPT !.result = "ran"]

Run(m, act, fault) ==
  IF act.fn = "remove" THEN run_remove(m, act.item, fault)
  ELSE run_add(m, act.item, fault)

----------------------------------------------------------------------------
\* UndoManager

\* push without its self._redo.clear()
push_keeps_redo(m, undoAct, redoAct) ==
  IF m.build = "codex"
  THEN [m EXCEPT !.undo = Append(m.undo, <<undoAct, redoAct>>)]
  ELSE [m EXCEPT !.undo = Append(m.undo, <<undoAct, NoAction>>)]

\* UndoManager.push(undo, redo) (codex); UndoManager.push(action) (main).
push(m, undoAct, redoAct) ==
  IF m.build = "codex"
  THEN [m EXCEPT !.undo = Append(m.undo, <<undoAct, redoAct>>), !.redo = <<>>]
  ELSE [m EXCEPT !.undo = Append(m.undo, <<undoAct, NoAction>>)]

Front(s) == SubSeq(s, 1, Len(s) - 1)
Last(s) == s[Len(s)]

\* undo of codex with self._redo.append((undo, redo))
undo_codex_unswapped(m, fault) ==
  IF m.undo = <<>> THEN [m EXCEPT !.result = "empty"]
  ELSE LET undoAct == Last(m.undo)[1]
           redoAct == Last(m.undo)[2]
           ran == Run([m EXCEPT !.undo = Front(m.undo)], undoAct, fault)
       IN  IF ran.result = "raised"
           THEN [ran EXCEPT !.report = "Undo failed", !.result = "failed"]
           ELSE IF redoAct # NoAction
           THEN [ran EXCEPT !.redo = Append(ran.redo, <<undoAct, redoAct>>),
                            !.result = "done"]
           ELSE [ran EXCEPT !.result = "done"]

\* UndoManager.undo of codex: the entry is popped before the try block.
undo_codex(m, fault) ==
  IF m.undo = <<>> THEN [m EXCEPT !.result = "empty"]
  ELSE LET undoAct == Last(m.undo)[1]
           redoAct == Last(m.undo)[2]
           ran == Run([m EXCEPT !.undo = Front(m.undo)], undoAct, fault)
       IN  IF ran.result = "raised"
           THEN [ran EXCEPT !.report = "Undo failed", !.result = "failed"]
           ELSE IF redoAct # NoAction
           THEN [ran EXCEPT !.redo = Append(ran.redo, <<redoAct, undoAct>>),
                            !.result = "done"]
           ELSE [ran EXCEPT !.result = "done"]

\* UndoManager.undo of main: the action is popped inside the try block.
undo_main(m, fault) ==
  IF m.undo = <<>> THEN [m EXCEPT !.result = "empty"]
  ELSE LET action == Last(m.undo)[1]
           ran == Run([m EXCEPT !.undo = Front(m.undo)], action, fault)
       IN  IF ran.result = "raised"
           THEN [ran EXCEPT !.report = "Undo failed", !.result = "failed"]
           ELSE [ran EXCEPT !.result = "done"]

undo(m, fault) == IF m.build = "codex" THEN undo_codex(m, fault) ELSE undo_main(m, fault)

\* UndoManager.redo (codex only): _redo holds the pairs as (redo, undo).
redo(m, fault) ==
  IF m.redo = <<>> THEN [m EXCEPT !.result = "empty"]
  ELSE LET redoAct == Last(m.redo)[1]
           undoAct == Last(m.redo)[2]
           ran == Run([m EXCEPT !.redo = Front(m.redo)], redoAct, fault)
       IN  IF ran.result = "raised"
           THEN [ran EXCEPT !.report = "Redo failed", !.result = "failed"]
           ELSE [ran EXCEPT !.undo = Append(ran.undo, <<undoAct, redoAct>>),
                            !.result = "done"]

----------------------------------------------------------------------------
\* CanvasTool

\* cancel without its self.preview_item = None
cancel_keeps_preview(m, t) ==
  IF m.preview[t] # None
  THEN [m EXCEPT !.scene = removeItem(m.scene, m.preview[t])]
  ELSE m

\* cancel without its scene.removeItem(self.preview_item)
cancel_leaves_item(m, t) == [m EXCEPT !.preview[t] = None]

\* CanvasTool.cancel (CanvasTool.finalize of main calls it and nothing else)
cancel(m, t) ==
  IF m.preview[t] # None
  THEN [m EXCEPT !.scene = removeItem(m.scene, m.preview[t]), !.preview[t] = None]
  ELSE m

\* CanvasTool.start
start(m, t) == cancel(m, t)

\* CanvasTool.delegate of tool t is set.  set_tool assigns it (set_delegate)
\* before the tool's start() and nothing resets it, and a tool receives
\* events only while it is the active tool: the delegate of the tool a
\* handler runs on is set.
HasDelegate(m, t) == t = m.active

\* target = pos; if self.delegate: target = self.delegate.apply_ortho(pos, self._start)
Target(m, t, pos) ==
  IF HasDelegate(m, t) THEN apply_ortho(m.ortho, pos, m.start[t]) ELSE pos

\* The preview a drafting tool constructs in on_press.
NewPreview(t, pos) ==
  CASE t \in {"WALL", "WINDOW", "DOOR"} ->
         SegmentItem(ItemClass(t), pos, pos, PreviewPen(ItemClass(t)))
    [] t = "LINE" -> DimensionLineItem(<<0, 0>>, <<0, 0>>, PreviewPen(ItemClass(t)))
    [] t = "RECTANGLE" -> DimensionRectItem(<<0, 0, 0, 0>>, PreviewPen(ItemClass(t)))
    [] OTHER -> EllipseItem(<<0, 0>>, 0, PreviewPen(ItemClass(t)))

\* The geometry a drafting tool gives its preview in on_move and its
\* committed shape in on_release, built from the anchor and the position.
Drafted(m, t, pos, pen) ==
  CASE t \in {"WALL", "WINDOW", "DOOR"} ->
         SegmentItem(ItemClass(t), m.start[t], Target(m, t, pos), pen)
    [] t = "LINE" ->
         DimensionLineItem(m.start[t], apply_ortho(m.ortho, pos, m.start[t]), pen)
    [] t = "RECTANGLE" -> DimensionRectItem(NormalizedRect(m.start[t], pos), pen)
    [] OTHER -> EllipseItem(m.start[t], Hypot2(m.start[t], pos), pen)

\* WallTool / WindowTool / DoorTool / LineTool / RectangleTool / CircleTool.on_press
draft_on_press(m, t, pos) ==
  LET anchored == [m EXCEPT !.start[t] = pos]
      i == NewId(m)
  IN  IF m.preview[t] = None
      THEN [Construct(anchored, i, NewPreview(t, pos))
              EXCEPT !.preview[t] = i,
                     !.scene = addItem(m.scene, i),
                     !.result = "preview"]
      ELSE [anchored EXCEPT !.result = "anchor"]

\* on_move that takes the position as the preview's end, constraint or not
draft_on_move_free(m, t, pos) ==
  IF m.start[t] = NoPoint \/ m.preview[t] = None
  THEN [m EXCEPT !.result = "idle"]
  ELSE [m EXCEPT !.items[m.preview[t]] =
                    Drafted([m EXCEPT !.ortho = FALSE], t, pos, m.items[m.preview[t]].pen),
                 !.result = "moved"]

\* ....on_move: the preview's geometry is updated in place.
draft_on_move(m, t, pos) ==
  IF m.start[t] = NoPoint \/ m.preview[t] = None
  THEN [m EXCEPT !.result = "idle"]
  ELSE [m EXCEPT !.items[m.preview[t]] =
                    Drafted(m, t, pos, m.items[m.preview[t]].pen),
                 !.result = "moved"]

\* The history entry of a creation: (undo, redo) in codex, (undo) in main.
CreationUndo(i) == Action("remove", i)
CreationRedo(b, i) == IF b = "codex" THEN Action("add", i) ELSE NoAction

\* on_release that commits the preview object and goes on holding it
draft_on_release_keeps_preview(m, t, pos) ==
  IF m.start[t] = NoPoint \/ m.preview[t] = None THEN [m EXCEPT !.result = "idle"]
  ELSE LET i == m.preview[t]
           shaped == [m EXCEPT !.items[i] = Drafted(m, t, pos, ClassPen(ItemClass(t)))]
           pushed == push(select(shaped, i), CreationUndo(i), CreationRedo(m.build, i))
       IN  [pushed EXCEPT !.result = "commit"]

\* on_release that commits the preview object instead of a new item
draft_on_release_commits_preview(m, t, pos) ==
  IF m.start[t] = NoPoint \/ m.preview[t] = None THEN [m EXCEPT !.result = "idle"]
  ELSE LET i == m.preview[t]
           shaped == [m EXCEPT !.items[i] = Drafted(m, t, pos, ClassPen(ItemClass(t))),
                               !.preview[t] = None]
           pushed == push(select(shaped, i), CreationUndo(i), CreationRedo(m.build, i))
       IN  [pushed EXCEPT !.result = "commit"]

\* on_release that commits nothing when the pointer is still at the anchor
draft_on_release_needs_drag(m, t, pos) ==
  IF m.start[t] = NoPoint \/ pos = m.start[t] THEN [m EXCEPT !.result = "idle"]
  ELSE LET i == NewId(m)
           built == Construct(m, i, Drafted(m, t, pos, ClassPen(ItemClass(t))))
           added == [built EXCEPT !.scene = addItem(built.scene, i)]
           selected == select(added, i)
           pushed == push(selected, CreationUndo(i), CreationRedo(m.build, i))
       IN  [cancel(pushed, t) EXCEPT !.result = "commit"]

\* ....on_release: a new item is constructed, added, selected and recorded,
\* then the preview is cancelled.
draft_on_release(m, t, pos) ==
  IF m.start[t] = NoPoint THEN [m EXCEPT !.result = "idle"]
  ELSE LET i == NewId(m)
           built == Construct(m, i, Drafted(m, t, pos, ClassPen(ItemClass(t))))
           added == [built EXCEPT !.scene = addItem(built.scene, i)]
           selected == select(added, i)
           pushed == push(selected, CreationUndo(i), CreationRedo(m.build, i))
       IN  [cancel(pushed, t) EXCEPT !.result = "commit"]

----------------------------------------------------------------------------
\* WallAttachmentTool (its fields _hover_pos and _wall are written by on_move
\* and read nowhere; they are left out)

NoHit == <<>>

\* The scan with "dist <= best[2]": of the nearest walls the last one wins
RECURSIVE NearestFrom_ties_last(_, _, _, _)
NearestFrom_ties_last(m, pos, k, best) ==
  IF k = 0 THEN best
  ELSE LET item == m.items[m.scene[k]]
       IN  IF item.cls # "WallItem" THEN NearestFrom_ties_last(m, pos, k - 1, best)
           ELSE LET projected == project_point(item.geom.start, item.geom.end, pos)
                    dist == Dist2(pos, projected)
                IN  IF best = NoHit \/ ~FracLess(best[3], dist)
                    THEN NearestFrom_ties_last(m, pos, k - 1, <<m.scene[k], projected, dist>>)
                    ELSE NearestFrom_ties_last(m, pos, k - 1, best)

\* CanvasEventDelegate.nearest_wall_projection: the scan of scene.items()
\* from position k down, with the best wall so far as <<wall, point, dist2>>.
RECURSIVE NearestFrom(_, _, _, _)
NearestFrom(m, pos, k, best) ==
  IF k = 0 THEN best
  ELSE LET item == m.items[m.scene[k]]
       IN  IF item.cls # "WallItem" THEN NearestFrom(m, pos, k - 1, best)
           ELSE LET projected == project_point(item.geom.start, item.geom.end, pos)
                    dist == Dist2(pos, projected)
                IN  IF best = NoHit \/ FracLess(dist, best[3])
                    THEN NearestFrom(m, pos, k - 1, <<m.scene[k], projected, dist>>)
                    ELSE NearestFrom(m, pos, k - 1, best)

nearest_wall_projection(m, pos) ==
  LET best == NearestFrom(m, pos, Len(m.scene), NoHit)
  IN  IF best = NoHit THEN NoHit ELSE <<best[1], best[2]>>

\* WallAttachmentTool.snap_to_wall
snap_to_wall(m, t, pos) ==
  IF ~HasDelegate(m, t) THEN NoHit ELSE nearest_wall_projection(m, pos)

\* wall.rotation(), as update_geometry set it
WallRotation(m, wall) == Rotation(m.items[wall].geom.start, m.items[wall].geom.end)

\* WallAttachmentTool.on_move
attach_on_move(m, t, pos) ==
  LET snapped == snap_to_wall(m, t, pos)
      i == NewId(m)
      built == IF m.preview[t] = None
               THEN [Construct(m, i, AttachmentItem(ItemClass(t), <<0, 0, 1>>, <<1, 0>>,
                                                    PreviewPen(ItemClass(t))))
                       EXCEPT !.preview[t] = i, !.scene = addItem(m.scene, i)]
               ELSE m
  IN  IF snapped = NoHit THEN [m EXCEPT !.result = "idle"]
      ELSE [built EXCEPT !.items[built.preview[t]].geom =
                            [pos |-> snapped[2], rotation |-> WallRotation(m, snapped[1])],
                         !.result = "moved"]

\* on_press that clears the selection when it finds no wall
attach_on_press_deselects(m, t, pos) ==
  LET snapped == snap_to_wall(m, t, pos)
      i == NewId(m)
      built == Construct(m, i, AttachmentItem(ItemClass(t), snapped[2],
                                              WallRotation(m, snapped[1]),
                                              ClassPen(ItemClass(t))))
      added == [built EXCEPT !.scene = addItem(built.scene, i)]
      selected == select(added, i)
  IN  IF snapped = NoHit
      THEN [select(m, None) EXCEPT !.report = "No wall", !.result = "rejected"]
      ELSE [push(selected, CreationUndo(i), CreationRedo(m.build, i))
              EXCEPT !.result = "commit"]

\* WallAttachmentTool.on_press
attach_on_press(m, t, pos) ==
  LET snapped == snap_to_wall(m, t, pos)
      i == NewId(m)
      built == Construct(m, i, AttachmentItem(ItemClass(t), snapped[2],
                                              WallRotation(m, snapped[1]),
                                              ClassPen(ItemClass(t))))
      added == [built EXCEPT !.scene = addItem(built.scene, i)]
      selected == select(added, i)
  IN  IF snapped = NoHit THEN [m EXCEPT !.report = "No wall", !.result = "rejected"]
      ELSE [push(selected, CreationUndo(i), CreationRedo(m.build, i))
              EXCEPT !.result = "commit"]

\* WallAttachmentTool.on_release
attach_on_release(m, t, pos) == [m EXCEPT !.result = "idle"]

on_press(m, t, pos) ==
  IF t \in AttachmentTools THEN attach_on_press(m, t, pos) ELSE draft_on_press(m, t, pos)

on_move(m, t, pos) ==
  IF t \in AttachmentTools THEN attach_on_move(m, t, pos) ELSE draft_on_move(m, t, pos)

on_release(m, t, pos) ==
  IF t \in AttachmentTools THEN attach_on_release(m, t, pos) ELSE draft_on_release(m, t, pos)

----------------------------------------------------------------------------
\* CanvasEventDelegate

\* set_tool without its "if self.active_tool: self.active_tool.cancel()"
set_tool_no_cancel(m, tool) == start([m EXCEPT !.active = tool], tool)

\* CanvasEventDelegate.set_tool (for set_delegate see HasDelegate)
set_tool(m, tool) ==
  LET cancelled == IF m.active # NoTool THEN cancel(m, m.active) ELSE m
      swapped == [cancelled EXCEPT !.active = tool]
  IN  start(swapped, tool)

\* tool_position that snaps for every tool
tool_position_snaps(m, pos) == snap_position(pos)

\* tool_position that snaps for no tool
tool_position_raw(m, pos) == pos

\* The position a handler works with: tool_position(event.pos()) in codex,
\* snap_position(view_to_scene(event.pos())) in main.
tool_position(m, pos) ==
  IF m.build = "codex" /\ m.active \in AttachmentTools THEN pos ELSE snap_position(pos)

\* What scene.itemAt(scene_pos, transform) can return: Qt decides from the
\* items' shapes; here any item of the scene, or None.
ItemAt(m, pos) == Range(m.scene) \cup {None}

\* CanvasEventDelegate.handle_mouse_press; hit is the result of itemAt.
handle_mouse_press(m, pos, hit) ==
  IF m.active # NoTool THEN on_press(m, m.active, tool_position(m, pos))
  ELSE [select(m, hit) EXCEPT !.result = "select"]

\* CanvasEventDelegate.handle_mouse_move
handle_mouse_move(m, pos) ==
  IF m.active = NoTool THEN [m EXCEPT !.result = "unhandled"]
  ELSE on_move(m, m.active, tool_position(m, pos))

\* handle_mouse_release that hands the tool the position as it came
handle_mouse_release_raw(m, pos) ==
  IF m.active = NoTool THEN [m EXCEPT !.result = "unhandled"]
  ELSE on_release(m, m.active, pos)

\* CanvasEventDelegate.handle_mouse_release
handle_mouse_release(m, pos) ==
  IF m.active = NoTool THEN [m EXCEPT !.result = "unhandled"]
  ELSE on_release(m, m.active, tool_position(m, pos))

----------------------------------------------------------------------------
\* The mouse handlers when a call into Qt raises.  A handler calls the view
\* (view_to_scene), then its tool calls the scene and the selection manager.
\* fault says which of these calls raises: 0 for none, 1 for view_to_scene,
\* k + 1 for the k-th call of the tool (a handler that makes fewer calls
\* completes).  A call that raises has had no effect.  A tool that raised
\* leaves result = "raised".

ToolFaults == {1, 2, 3, 4}

\* on_press of a drafting tool: self._start = pos, self.preview_item =
\* preview, then the call scene.addItem(preview)
draft_on_press_raising(m, t, pos, fault) ==
  IF m.preview[t] = None /\ fault = 1
  THEN [Construct([m EXCEPT !.start[t] = pos], NewId(m), NewPreview(t, pos))
          EXCEPT !.preview[t] = NewId(m), !.result = "raised"]
  ELSE draft_on_press(m, t, pos)

\* on_release of a drafting tool: the calls scene.addItem(item),
\* selection.select(item) and, in cancel, scene.removeItem(preview)
draft_on_release_raising(m, t, pos, fault) ==
  IF m.start[t] = NoPoint THEN draft_on_release(m, t, pos)
  ELSE LET i == NewId(m)
           built == Construct(m, i, Drafted(m, t, pos, ClassPen(ItemClass(t))))
           added == [built EXCEPT !.scene = addItem(built.scene, i)]
           pushed == push(select(added, i), CreationUndo(i), CreationRedo(m.build, i))
       IN  CASE fault = 1 -> [m EXCEPT !.result = "raised"]
             [] fault = 2 -> [added EXCEPT !.result = "raised"]
             [] fault = 3 /\ m.preview[t] # None -> [pushed EXCEPT !.result = "raised"]
             [] OTHER -> draft_on_release(m, t, pos)

\* WallAttachmentTool.on_move: self.preview_item = self.build_preview(),
\* then the call scene.addItem(self.preview_item)
attach_on_move_raising(m, t, pos, fault) ==
  IF snap_to_wall(m, t, pos) # NoHit /\ m.preview[t] = None /\ fault = 1
  THEN [Construct(m, NewId(m), AttachmentItem(ItemClass(t), <<0, 0, 1>>, <<1, 0>>,
                                              PreviewPen(ItemClass(t))))
          EXCEPT !.preview[t] = NewId(m), !.result = "raised"]
  ELSE attach_on_move(m, t, pos)

\* WallAttachmentTool.on_press: the calls scene.addItem(item) and
\* selection.select(item)
attach_on_press_raising(m, t, pos, fault) ==
  LET snapped == snap_to_wall(m, t, pos)
      i == NewId(m)
      built == Construct(m, i, AttachmentItem(ItemClass(t), snapped[2],
                                              WallRotation(m, snapped[1]),
                                              ClassPen(ItemClass(t))))
  IN  CASE snapped # NoHit /\ fault = 1 -> [m EXCEPT !.result = "raised"]
        [] snapped # NoHit /\ fault = 2 ->
             [built EXCEPT !.scene = addItem(built.scene, i), !.result = "raised"]
        [] OTHER -> attach_on_press(m, t, pos)

on_press_raising(m, t, pos, fault) ==
  IF t \in AttachmentTools THEN attach_on_press_raising(m, t, pos, fault)
  ELSE draft_on_press_raising(m, t, pos, fault)

\* on_move of a drafting tool calls neither the scene nor the selection
on_move_raising(m, t, pos, fault) ==
  IF t \in AttachmentTools THEN attach_on_move_raising(m, t, pos, fault)
  ELSE draft_on_move(m, t, pos)

on_release_raising(m, t, pos, fault) ==
  IF t \in AttachmentTools THEN attach_on_release(m, t, pos)
  ELSE draft_on_release_raising(m, t, pos, fault)

\* A handler without its try / except
Propagated(r, what) == r

\* try: ... except Exception as exc: QMessageBox.critical / warning(
\* self.view, "Error", f"{what} failed: {exc}"); return True
Caught(r, what) ==
  IF r.result = "raised" THEN [r EXCEPT !.report = what, !.result = "caught"] ELSE r

\* CanvasEventDelegate.handle_mouse_press when a call raises; with no tool
\* active the calls after view_to_scene are scene.itemAt and selection.select
handle_mouse_press_raising(m, pos, hit, fault) ==
  Caught(IF fault = 1 THEN [m EXCEPT !.result = "raised"]
         ELSE IF m.active # NoTool
         THEN on_press_raising(m, m.active, tool_position(m, pos), fault - 1)
         ELSE IF fault \in {2, 3} THEN [m EXCEPT !.result = "raised"]
         ELSE handle_mouse_press(m, pos, hit),
         "Mouse press failed")

\* CanvasEventDelegate.handle_mouse_move when a call raises
handle_mouse_move_raising(m, pos, fault) ==
  IF m.active = NoTool THEN handle_mouse_move(m, pos)
  ELSE Caught(IF fault = 1 THEN [m EXCEPT !.result = "raised"]
              ELSE on_move_raising(m, m.active, tool_position(m, pos), fault - 1),
              "Mouse move failed")

\* CanvasEventDelegate.handle_mouse_release when a call raises
handle_mouse_release_raising(m, pos, fault) ==
  IF m.active = NoTool THEN handle_mouse_release(m, pos)
  ELSE Caught(IF fault = 1 THEN [m EXCEPT !.result = "raised"]
              ELSE on_release_raising(m, m.active, tool_position(m, pos), fault - 1),
              "Mouse release failed")

\* What a mouse handler returns to the view: True for an event it handled
Handled(r) ==
  CASE r.result = "unhandled" -> FALSE
    [] r.result = "select" -> r.current # None
    [] OTHER -> TRUE

----------------------------------------------------------------------------
\* MainWindow

\* MainWindow.delete_selected
delete_selected(m) ==
  LET item == m.current
      removed == [m EXCEPT !.scene = removeItem(m.scene, item)]
      deselected == select(removed, None)
  IN  IF item = None THEN [m EXCEPT !.result = "nothing"]
      ELSE [push(deselected, Action("add", item),
                 IF m.build = "codex" THEN Action("remove", item) ELSE NoAction)
              EXCEPT !.result = "deleted"]

\* activate_tool that puts the active tool down on a name it does not know
activate_tool_unknown_resets(m, name) ==
  IF name \notin ToolsOf(m.build)
  THEN [(IF m.active # NoTool THEN cancel(m, m.active) ELSE m)
          EXCEPT !.active = NoTool, !.report = "Unrecognized tool", !.result = "unknown"]
  ELSE [set_tool(m, name) EXCEPT !.result = "switched"]

\* MainWindow.activate_tool: self.tools.get(name)
activate_tool(m, name) ==
  IF name \notin ToolsOf(m.build)
  THEN [m EXCEPT !.report = "Unrecognized tool", !.result = "unknown"]
  ELSE [set_tool(m, name) EXCEPT !.result = "switched"]

\* MainWindow.closeEvent
closeEvent(m) ==
  [(IF m.active # NoTool THEN cancel(m, m.active) ELSE m) EXCEPT !.result = "closed"]

----------------------------------------------------------------------------
\* The state machine

\* The tools in the order in which their previews are numbered.
ToolOrder ==
  <<"WALL", "WINDOW", "DOOR", "SWITCH", "OUTLET", "LINE", "RECTANGLE", "CIRCLE">>

\* s without None and without repetitions, the first occurrences in order.
RECURSIVE Distinct(_, _)
Distinct(s, seen) ==
  IF s = <<>> THEN <<>>
  ELSE IF Head(s) \in seen \cup {None} THEN Distinct(Tail(s), seen)
  ELSE <<Head(s)>> \o Distinct(Tail(s), seen \cup {Head(s)})

\* The live objects in the order in which the editor refers to them.
References(m) ==
  Distinct(m.scene
             \o [k \in 1..Len(ToolOrder) |-> m.preview[ToolOrder[k]]]
             \o [k \in 1..Len(m.undo) |-> m.undo[k][1].item]
             \o [k \in 1..Len(m.redo) |-> m.redo[k][1].item]
             \o <<m.current>>, {})

\* m with its live objects numbered by rank (old identity -> new identity)
\* and the unreferenced objects gone.
Renumbered(m, ord, rank) ==
  LET ref(i) == IF i \in DOMAIN rank THEN rank[i] ELSE i
      act(a) == [a EXCEPT !.item = ref(a.item)]
  IN  [m EXCEPT
         !.scene = [k \in 1..Len(m.scene) |-> ref(m.scene[k])],
         !.preview = [t \in AllTools |-> ref(m.preview[t])],
         !.current = ref(m.current),
         !.shown = IF m.shown \in DOMAIN m.items \ DOMAIN rank THEN None ELSE ref(m.shown),
         !.undo = [k \in 1..Len(m.undo) |-> <<act(m.undo[k][1]), act(m.undo[k][2])>>],
         !.redo = [k \in 1..Len(m.redo) |-> <<act(m.redo[k][1]), act(m.redo[k][2])>>],
         !.items = [k \in 1..Len(ord) |-> m.items[ord[k]]]]

\* m with its live objects numbered 1, 2, ... in the order of References(m).
Numbered(m) ==
  LET ord == CHOOSE o \in {References(m)} : TRUE
      rank == CHOOSE r \in {[i \in Range(ord) |-> CHOOSE k \in 1..Len(ord) : ord[k] = i]} : TRUE
  IN  Renumbered(m, ord, rank)

\* The state after a handler: its result, with the unreferenced objects gone.
\* A handler that needs more live objects than MaxItems is not taken.
Install(h) ==
  \E m \in {Numbered(h)} :
  /\ Cardinality(DOMAIN m.items) <= MaxItems
  /\ active_tool' = m.active
  /\ ortho_active' = m.ortho
  /\ tool_start' = m.start
  /\ preview_item' = m.preview
  /\ scene' = m.scene
  /\ items' = m.items
  /\ current' = m.current
  /\ previous_pen' = m.previous_pen
  /\ shown' = m.shown
  /\ undo_stack' = m.undo
  /\ redo_stack' = m.redo
  /\ UNCHANGED <<build, palette>>

Init ==
  /\ build \in Builds
  /\ palette \in Palettes(build)
  /\ closed = FALSE
  /\ active_tool = NoTool
  /\ ortho_active = FALSE
  /\ tool_start = [t \in AllTools |-> NoPoint]
  /\ preview_item = [t \in AllTools |-> None]
  /\ scene = <<>>
  /\ items = <<>>
  /\ current = None
  /\ previous_pen = NoPen
  /\ shown = Never
  /\ undo_stack = <<>>
  /\ redo_stack = <<>>
  /\ pointer = <<0, 0>>

\* A toolbar action (codex) or a command-line entry (main)
ActivateTool ==
  /\ ~closed
  /\ \E name \in palette \cup (ToolNames \ ToolsOf(build)) :
       Install(activate_tool(Cur, name))
  /\ UNCHANGED <<closed, pointer>>

\* GridGraphicsView.mousePressEvent with the left button, at a position of P
PressAt(P) ==
  /\ ~closed
  /\ \E pos \in P :
       /\ \E hit \in ItemAt(Cur, snap_position(pos)) :
            Install(handle_mouse_press(Cur, pos, hit))
       /\ pointer' = pos
  /\ UNCHANGED closed

\* GridGraphicsView.mouseMoveEvent
MoveAt(P) ==
  /\ ~closed
  /\ \E pos \in P :
       /\ Install(handle_mouse_move(Cur, pos))
       /\ pointer' = pos
  /\ UNCHANGED closed

\* GridGraphicsView.mouseReleaseEvent
ReleaseAt(P) ==
  /\ ~closed
  /\ \E pos \in P :
       /\ Install(handle_mouse_release(Cur, pos))
       /\ pointer' = pos
  /\ UNCHANGED closed

MousePress == PressAt(Pointer)

MouseMove == MoveAt(Pointer)

MouseRelease == ReleaseAt(Pointer)

\* MainWindow.keyPressEvent / keyReleaseEvent with Key_Shift
KeyShift ==
  /\ ~closed
  /\ \E down \in BOOLEAN :
       Install([Cur EXCEPT !.ortho = down, !.result = "shift"])
  /\ UNCHANGED <<closed, pointer>>

\* MainWindow.keyPressEvent with the Undo key sequence
KeyUndo ==
  /\ ~closed
  /\ Install(undo(Cur, 0))
  /\ UNCHANGED <<closed, pointer>>

\* MainWindow.keyPressEvent with the Redo key sequence (bound in codex only)
KeyRedo ==
  /\ ~closed
  /\ build = "codex"
  /\ Install(redo(Cur, 0))
  /\ UNCHANGED <<closed, pointer>>

\* MainWindow.keyPressEvent with Key_Delete
KeyDelete ==
  /\ ~closed
  /\ Install(delete_selected(Cur))
  /\ UNCHANGED <<closed, pointer>>

\* MainWindow.closeEvent
Close ==
  /\ ~closed
  /\ Install(closeEvent(Cur))
  /\ closed' = TRUE
  /\ UNCHANGED pointer

Next ==
  \/ ActivateTool
  \/ MousePress
  \/ MouseMove
  \/ MouseRelease
  \/ KeyShift
  \/ KeyUndo
  \/ KeyRedo
  \/ KeyDelete
  \/ Close

\* The editor when every call into Qt succeeds.
Spec == Init /\ [][Next]_vars

\* The Undo key when a call of the closure raises
KeyUndoFault ==
  /\ ~closed
  /\ \E fault \in Faults : Install(undo(Cur, fault))
  /\ UNCHANGED <<closed, pointer>>

\* The Redo key when a call of the closure raises
KeyRedoFault ==
  /\ ~closed
  /\ build = "codex"
  /\ \E fault \in Faults : Install(redo(Cur, fault))
  /\ UNCHANGED <<closed, pointer>>

NextFaults ==
  \/ Next
  \/ KeyUndoFault
  \/ KeyRedoFault

\* The editor when a history closure's call into Qt may raise, in the
\* sessions of one palette per build.
InitFaults == Init /\ palette \in {{"WALL", "SWITCH"}, {"LINE", "RECTANGLE"}}

SpecFaults == InitFaults /\ [][NextFaults]_vars

\* A mouse press when a call of its handler raises
MousePressFault ==
  /\ ~closed
  /\ \E pos \in Pointer : \E fault \in ToolFaults :
       /\ \E hit \in ItemAt(Cur, snap_position(pos)) :
            Install(handle_mouse_press_raising(Cur, pos, hit, fault))
       /\ pointer' = pos
  /\ UNCHANGED closed

\* A mouse move when a call of its handler raises
MouseMoveFault ==
  /\ ~closed
  /\ \E pos \in Pointer : \E fault \in ToolFaults :
       /\ Install(handle_mouse_move_raising(Cur, pos, fault))
       /\ pointer' = pos
  /\ UNCHANGED closed

\* A mouse release when a call of its handler raises
MouseReleaseFault ==
  /\ ~closed
  /\ \E pos \in Pointer : \E fault \in ToolFaults :
       /\ Install(handle_mouse_release_raising(Cur, pos, fault))
       /\ pointer' = pos
  /\ UNCHANGED closed

NextMouseFaults ==
  \/ Next
  \/ MousePressFault
  \/ MouseMoveFault
  \/ MouseReleaseFault

\* The editor when a call a mouse handler makes into Qt may raise, in the
\* sessions of one palette per build.
SpecMouseFaults == InitFaults /\ [][NextMouseFaults]_vars

\* Mouse events of a session that draws a plan
PlanPress == PressAt(PlanPoints) /\ Cardinality(DOMAIN items') <= MaxPlanItems

PlanMove == MoveAt(PlanPoints) /\ Cardinality(DOMAIN items') <= MaxPlanItems

PlanRelease == ReleaseAt(PlanPoints) /\ Cardinality(DOMAIN items') <= MaxPlanItems

NextPlan ==
  \/ ActivateTool
  \/ PlanPress
  \/ PlanMove
  \/ PlanRelease
  \/ KeyShift
  \/ Close

\* The editor with the pointer at the positions of PlanPoints, in the
\* sessions that place walls and switches and leave the history keys alone
\* (Spec has those).
InitPlan == Init /\ palette = {"WALL", "SWITCH"}

SpecPlan == InitPlan /\ [][NextPlan]_vars

----------------------------------------------------------------------------
\* Vocabulary of the properties.  A property of a handler is stated in the
\* state before the handler: for the reachable state Cur and every input,
\* the handler's result relates to Cur as the property says.

\* The longest run of commits a property follows from one state.
MaxRun == 2

\* The committed shapes of the scene: its items that are no tool's preview.
Committed(m) == SelectSeq(m.scene, LAMBDA i : \A t \in AllTools : m.preview[t] # i)

Shapes(m) == Range(Committed(m))

\* One gesture of the user: the tool, where the button goes down and where
\* it goes up.
Gestures == palette \X Pointer \X Pointer

\* The user picks tool g[1] unless it is the active tool, and makes the
\* gesture: press and release (a drafting tool), press (a wall attachment).
Gesture(m, g) ==
  LET a == IF m.active = g[1] THEN m ELSE activate_tool(m, g[1])
  IN  IF g[1] \in AttachmentTools THEN handle_mouse_press(a, g[2], None)
      ELSE handle_mouse_release(handle_mouse_press(a, g[2], None), g[3])

\* The gestures gs one after the other, as long as each commits a shape.
RECURSIVE Commits(_, _)
Commits(m, gs) ==
  IF gs = <<>> THEN [m EXCEPT !.result = "commit"]
  ELSE LET c == Gesture(m, Head(gs))
       IN  IF c.result # "commit" THEN c ELSE Commits(c, Tail(gs))

\* What a handler left of the editor, without the handler's outputs.
Core(m) == [m EXCEPT !.report = "", !.result = "", !.notified = <<>>]

\* The pointer positions a property follows a handler at: on and off the
\* grid, on, beside and beyond the walls of a plan.
Points ==
  PlanPoints \cup {<<50, 40>>, <<50, 60>>, <<10, 10>>, <<130, -20>>, <<-40, 0>>}

\* The walls of the scene
Walls(m) == {i \in Range(m.scene) : m.items[i].cls = "WallItem"}

\* undo() n times
RECURSIVE Undos(_, _)
Undos(m, n) == IF n = 0 THEN m ELSE Undos(undo(m, 0), n - 1)

----------------------------------------------------------------------------
\* C1: n tool commits followed by n undo() calls leave in the scene exactly
\* the shapes it held before the commits, and an undo stack that was empty
\* before the commits is empty again.
C1_CommitsThenUndos ==
  ~closed =>
    \A n \in 1..MaxRun : \A gs \in [1..n -> Gestures] :
      \E c \in {Commits(Cur, gs)} :
        c.result = "commit" =>
          \E u \in {Undos(c, n)} :
            /\ Shapes(u) = Shapes(Cur)
            /\ undo_stack = <<>> => u.undo = <<>>

\* Two creations have been undone: the redo stack holds their two entries,
\* the undo stack is empty and no shape is left in the scene.
C1_Witness ==
  /\ build = "codex"
  /\ undo_stack = <<>>
  /\ Len(redo_stack) = 2
  /\ \A k \in 1..2 : redo_stack[k][1].fn = "add"
  /\ redo_stack[1][1].item # redo_stack[2][1].item
  /\ Shapes(Cur) = {}

----------------------------------------------------------------------------
\* C2: after an undo(), every push of a new entry (a tool's commit, a
\* deletion) leaves the redo stack empty, and the redo() that follows
\* changes nothing: scene, items, selection and both stacks stay.
C2_PushClearsRedo ==
  ~closed =>
    \E u \in {undo(Cur, 0)} :
      u.result = "done" =>
        \A p \in {Gesture(u, g) : g \in Gestures} \cup {delete_selected(u)} :
          p.result \in {"commit", "deleted"} =>
            /\ p.redo = <<>>
            /\ Len(p.undo) = Len(u.undo) + 1
            /\ build = "codex" => Core(redo(p, 0)) = Core(p)

\* An undo() that fills the redo stack can be followed by a commit here.
C2_Witness ==
  /\ ~closed
  /\ build = "codex"
  /\ undo(Cur, 0).result = "done"
  /\ undo(Cur, 0).redo # <<>>
  /\ \E g \in Gestures :
       /\ Gesture(undo(Cur, 0), g).result = "commit"
       /\ Gesture(undo(Cur, 0), g).redo = <<>>

----------------------------------------------------------------------------
\* C3: undo() changes nothing on an empty undo stack; otherwise it pops the
\* entry pushed last, runs its undo action and puts the same entry on top of
\* the redo stack.  redo() is the mirror image.  Neither changes the number
\* of entries the two stacks hold together.
C3_UndoRedoMoveEntry ==
  ~closed =>
    /\ \E u \in {undo(Cur, 0)} :
         IF undo_stack = <<>> THEN Core(u) = Cur
         ELSE /\ u.undo = Front(undo_stack)
              /\ Len(u.redo) = Len(redo_stack) + 1
              /\ Front(u.redo) = redo_stack
              /\ {Last(u.redo)[1], Last(u.redo)[2]}
                   = {Last(undo_stack)[1], Last(undo_stack)[2]}
              /\ u.scene = Run(Cur, Last(undo_stack)[1], 0).scene
              /\ u.current = Run(Cur, Last(undo_stack)[1], 0).current
              /\ Len(u.undo) + Len(u.redo) = Len(undo_stack) + Len(redo_stack)
    /\ \E r \in {redo(Cur, 0)} :
         IF redo_stack = <<>> THEN Core(r) = Cur
         ELSE /\ r.redo = Front(redo_stack)
              /\ Len(r.undo) = Len(undo_stack) + 1
              /\ Front(r.undo) = undo_stack
              /\ {Last(r.undo)[1], Last(r.undo)[2]}
                   = {Last(redo_stack)[1], Last(redo_stack)[2]}
              /\ r.scene = Run(Cur, Last(redo_stack)[1], 0).scene
              /\ r.current = Run(Cur, Last(redo_stack)[1], 0).current
              /\ Len(r.undo) + Len(r.redo) = Len(undo_stack) + Len(redo_stack)

----------------------------------------------------------------------------
\* C4: when the action run by undo() or redo() fails, the failure is
\* reported, the entry is not moved to the other stack, and the stack it was
\* taken from is as before the pop, the failing entry on top.
C4_FailedActionKeepsEntry ==
  ~closed =>
    \A fault \in Faults :
      /\ \E u \in {undo(Cur, fault)} :
           u.result = "failed" =>
             /\ u.report = "Undo failed"
             /\ u.redo = redo_stack
             /\ u.undo = undo_stack
      /\ \E r \in {redo(Cur, fault)} :
           r.result = "failed" =>
             /\ r.report = "Redo failed"
             /\ r.undo = undo_stack
             /\ r.redo = redo_stack

----------------------------------------------------------------------------
\* C5: the history entry of every creation a tool commits holds both
\* directions, undo removing and deselecting the shape, redo re-adding and
\* reselecting it: after undo() and redo() the shape is in the scene again
\* and is the current selection.
C5_CreationRecordsBothDirections ==
  ~closed =>
    \A g \in Gestures :
      \E c \in {Gesture(Cur, g)} :
        c.result = "commit" =>
          /\ Last(c.undo) = <<Action("remove", c.current), Action("add", c.current)>>
          /\ \E u \in {undo(c, 0)} :
               /\ c.current \notin Range(u.scene)
               /\ u.current = None
               /\ \E r \in {redo(u, 0)} :
                    /\ c.current \in Range(r.scene)
                    /\ r.current = c.current

----------------------------------------------------------------------------
\* C6: delete_selected() with a selected shape removes the shape from the
\* scene, clears the selection and pushes one entry, undo re-adding and
\* reselecting the shape, redo removing and deselecting it; with no
\* selection it changes nothing.
C6_DeleteSelected ==
  ~closed =>
    \E d \in {delete_selected(Cur)} :
      IF current = None THEN Core(d) = Cur
      ELSE /\ Range(d.scene) = Range(scene) \ {current}
           /\ d.current = None
           /\ d.undo = Append(undo_stack,
                              <<Action("add", current), Action("remove", current)>>)

----------------------------------------------------------------------------
\* C7: the current selection is none or a shape of the scene.
C7_SelectionInScene == current = None \/ current \in Shapes(Cur)

\* The creation last undone was removed from the scene and the selection
\* was cleared with it: the selection observer was last told "none".
C7_Witness ==
  /\ current = None
  /\ shown = None
  /\ redo_stack # <<>>
  /\ Last(redo_stack)[1].fn = "add"
  /\ Last(redo_stack)[1].item \notin Range(scene)

----------------------------------------------------------------------------
\* C8: the release that ends a drafting gesture adds one new shape, an
\* object that did not exist before and is not the preview; the shape becomes
\* the current selection, one history entry is pushed, the tool holds no
\* preview and the preview is out of the scene.
C8_ReleaseCommits ==
  (~closed /\ active_tool \notin AttachmentTools \cup {NoTool}
           /\ preview_item[active_tool] # None) =>
    \A pos \in Pointer :
      \E r \in {handle_mouse_release(Cur, pos)} :
        /\ r.result = "commit"
        /\ r.current \notin DOMAIN items
        /\ r.current # preview_item[active_tool]
        /\ Range(r.scene) = (Range(scene) \ {preview_item[active_tool]}) \cup {r.current}
        /\ Len(r.scene) = Len(scene)
        /\ Front(r.undo) = undo_stack
        /\ Len(r.undo) = Len(undo_stack) + 1
        /\ Last(r.undo)[1] = Action("remove", r.current)
        /\ r.preview[active_tool] = None

\* A drafting gesture is in progress: the active tool's preview is in the scene.
C8_Witness ==
  /\ ~closed
  /\ active_tool \notin AttachmentTools \cup {NoTool}
  /\ preview_item[active_tool] \in Range(scene)
  /\ \E pos \in Pointer : handle_mouse_release(Cur, pos).result = "commit"

----------------------------------------------------------------------------
\* C9: cancel() of any tool, in any state, discards the tool's preview and
\* leaves the committed shapes, the selection and both stacks as they are.
C9_CancelFrame ==
  \A t \in AllTools :
    \E c \in {cancel(Cur, t)} :
      /\ c.preview[t] = None
      /\ preview_item[t] \notin Range(c.scene)
      /\ Committed(c) = Committed(Cur)
      /\ \A i \in Shapes(Cur) : c.items[i] = items[i]
      /\ c.current = current
      /\ c.previous_pen = previous_pen
      /\ c.undo = undo_stack
      /\ c.redo = redo_stack

\* A tool holds a preview while the scene, the selection and the history
\* are not empty.
C9_Witness ==
  /\ \E t \in AllTools : preview_item[t] \in Range(scene)
  /\ Shapes(Cur) # {}
  /\ current # None
  /\ undo_stack # <<>>

----------------------------------------------------------------------------
\* C10: activating a tool and closing the editor cancel the outgoing tool:
\* its preview is gone from the scene, and the interrupted gesture left no
\* committed shape and no history entry.
C10_SwitchAndCloseCancel ==
  /\ (~closed /\ active_tool # NoTool) =>
       /\ \A name \in palette :
            \E a \in {activate_tool(Cur, name)} :
              /\ a.active = name
              /\ a.preview[active_tool] = None
              /\ preview_item[active_tool] \notin Range(a.scene)
              /\ Committed(a) = Committed(Cur)
              /\ a.undo = undo_stack
              /\ a.redo = redo_stack
       /\ \E c \in {closeEvent(Cur)} :
            /\ c.preview[active_tool] = None
            /\ preview_item[active_tool] \notin Range(c.scene)
            /\ Committed(c) = Committed(Cur)
            /\ c.undo = undo_stack
            /\ c.redo = redo_stack
  /\ closed => \A t \in AllTools : preview_item[t] = None

\* A gesture is in progress and the user can pick another tool.
C10_Witness ==
  /\ ~closed
  /\ active_tool # NoTool
  /\ preview_item[active_tool] \in Range(scene)
  /\ palette \ {active_tool} # {}

----------------------------------------------------------------------------
\* C11: a press with SWITCH or OUTLET active while the scene holds no wall
\* is rejected: "No wall" is reported, and the scene, the items, the
\* selection, the previews and both stacks are as before the press.
C11_NoWallRejected ==
  (~closed /\ active_tool \in AttachmentTools /\ Walls(Cur) = {}) =>
    \A pos \in Points :
      \E r \in {handle_mouse_press(Cur, pos, None)} :
        /\ r.result = "rejected"
        /\ r.report = "No wall"
        /\ Core(r) = Cur

\* An attachment tool is active over a scene of shapes that are no walls,
\* one of them selected, with a history.
C11_Witness ==
  /\ ~closed
  /\ active_tool \in AttachmentTools
  /\ Walls(Cur) = {}
  /\ current \in Shapes(Cur)
  /\ undo_stack # <<>>
  /\ handle_mouse_press(Cur, <<50, 40>>, None).result = "rejected"

----------------------------------------------------------------------------
\* The distance (squared, as a fraction) from pos to the centerline of a wall
WallDist2(m, wall, pos) ==
  Dist2(pos, project_point(m.items[wall].geom.start, m.items[wall].geom.end, pos))

\* C12: with SWITCH active and one wall in the scene, a press at a point 40
\* units from that wall's centerline is rejected: the scene is as before and
\* no history entry is pushed.
C12_FarPressRejected ==
  (~closed /\ active_tool = "SWITCH" /\ Cardinality(Walls(Cur)) = 1) =>
    \A wall \in Walls(Cur) : \A pos \in Points :
      (WallDist2(Cur, wall, pos)[1] = 40 * 40 * WallDist2(Cur, wall, pos)[2]) =>
        \E r \in {handle_mouse_press(Cur, pos, None)} :
          /\ r.result = "rejected"
          /\ r.scene = scene
          /\ r.undo = undo_stack

----------------------------------------------------------------------------
\* C13: with SWITCH or OUTLET active and a wall in the scene, a press adds
\* one new attachment to the scene, at the projection of the press point onto
\* the centerline of a nearest wall and with that wall's rotation, selects it
\* and pushes one history entry; the release that follows changes nothing.
C13_PressCommitsAttachment ==
  (~closed /\ active_tool \in AttachmentTools /\ Walls(Cur) # {}) =>
    \A pos \in Points :
      \E r \in {handle_mouse_press(Cur, pos, None)} :
        /\ r.result = "commit"
        /\ r.current \notin DOMAIN items
        /\ r.scene = Append(scene, r.current)
        /\ r.items[r.current].cls = ItemClass(active_tool)
        /\ \E wall \in Walls(Cur) :
             /\ \A w \in Walls(Cur) :
                  ~FracLess(WallDist2(Cur, w, pos), WallDist2(Cur, wall, pos))
             /\ r.items[r.current].geom.pos =
                  project_point(items[wall].geom.start, items[wall].geom.end, pos)
             /\ r.items[r.current].geom.rotation =
                  Rotation(items[wall].geom.start, items[wall].geom.end)
        /\ r.undo = Append(undo_stack, <<Action("remove", r.current),
                                         Action("add", r.current)>>)
        /\ \A i \in DOMAIN items : r.items[i].geom = items[i].geom
        /\ \A q \in Points : Core(handle_mouse_release(r, q)) = Core(r)

\* A press at (97,3) has put a switch on the wall from (0,0) to (100,0), at
\* (97,0), and selected it.
C13_Witness ==
  /\ active_tool = "SWITCH"
  /\ pointer = <<97, 3>>
  /\ current \in Shapes(Cur)
  /\ undo_stack # <<>>
  /\ Last(undo_stack)[1] = Action("remove", current)
  /\ items[current].cls = "SwitchItem"
  /\ items[current].geom.pos = <<97, 0, 1>>
  /\ \E w \in Walls(Cur) : items[w].geom = [start |-> <<0, 0>>, end |-> <<100, 0>>]

----------------------------------------------------------------------------
\* g is a nearest point of the grid to p: each coordinate a multiple of
\* GRID_SIZE, at most half a cell from p's.
IsNearestGrid(g, p) ==
  \A k \in 1..2 : g[k] % GRID_SIZE = 0 /\ 2 * Abs(g[k] - p[k]) <= GRID_SIZE

\* C14: with WALL active and the orthogonal constraint off, a press at p and
\* a release at q through the dispatcher commit a wall from a nearest grid
\* point of p to a nearest grid point of q; for p = (0,0) and q = (97,3) the
\* wall goes from (0,0) to (100,0) and its label reads "100.00".
C14_WallSnapsToGrid ==
  (~closed /\ active_tool = "WALL" /\ ~ortho_active) =>
    \A p \in Points : \A q \in Points :
      \E r \in {handle_mouse_release(handle_mouse_press(Cur, p, None), q)} :
        /\ r.result = "commit"
        /\ r.current \in Shapes(r) \ DOMAIN items
        /\ r.items[r.current].cls = "WallItem"
        /\ IsNearestGrid(r.items[r.current].geom.start, p)
        /\ IsNearestGrid(r.items[r.current].geom.end, q)
        /\ (p = <<0, 0>> /\ q = <<97, 3>>) =>
             /\ r.items[r.current].geom = [start |-> <<0, 0>>, end |-> <<100, 0>>]
             /\ label_text(r.items[r.current].geom.start,
                           r.items[r.current].geom.end) = "100.00"

\* A release at (97,3) has committed the wall from (0,0) to (100,0), labelled
\* "100.00".
C14_Witness ==
  /\ active_tool = "WALL"
  /\ ~ortho_active
  /\ pointer = <<97, 3>>
  /\ preview_item["WALL"] = None
  /\ current \in Walls(Cur)
  /\ items[current].geom = [start |-> <<0, 0>>, end |-> <<100, 0>>]
  /\ label_text(items[current].geom.start, items[current].geom.end) = "100.00"

----------------------------------------------------------------------------
\* The defining geometry of item has no extent.
ZeroExtent(item) ==
  CASE item.cls \in SegmentClasses -> item.geom.start = item.geom.end
    [] item.cls = "DimensionLineItem" -> item.geom.p1 = item.geom.p2
    [] item.cls = "DimensionRectItem" -> item.geom.rect[3] = 0 /\ item.geom.rect[4] = 0
    [] item.cls = "QGraphicsEllipseItem" -> item.geom.r2 = 0
    [] OTHER -> FALSE

\* C15: with a drafting tool active, a press and a release at positions that
\* snap to the same point commit one new shape, of no extent, and report no
\* error; with RECTANGLE, a press and a release at (10,10) commit a rectangle
\* of width 0 and height 0.
C15_StillGestureCommits ==
  (~closed /\ active_tool \notin AttachmentTools \cup {NoTool}) =>
    \A p \in Points : \A q \in Points :
      tool_position(Cur, p) = tool_position(Cur, q) =>
        \E r \in {handle_mouse_release(handle_mouse_press(Cur, p, None), q)} :
          /\ r.result = "commit"
          /\ r.report = ""
          /\ r.current \notin DOMAIN items
          /\ Shapes(r) = Shapes(Cur) \cup {r.current}
          /\ Len(r.undo) = Len(undo_stack) + 1
          /\ r.items[r.current].cls = ItemClass(active_tool)
          /\ ZeroExtent(r.items[r.current])
          /\ (active_tool = "RECTANGLE" /\ p = <<10, 10>> /\ q = <<10, 10>>) =>
               /\ r.items[r.current].geom.rect[3] = 0
               /\ r.items[r.current].geom.rect[4] = 0

\* A press and a release at one position have committed a rectangle of width
\* 0 and height 0, and a press and a release at (10,10) commit another.
C15_Witness ==
  /\ ~closed
  /\ active_tool = "RECTANGLE"
  /\ tool_start["RECTANGLE"] = snap_position(pointer)
  /\ preview_item["RECTANGLE"] = None
  /\ current \in Shapes(Cur)
  /\ items[current].cls = "DimensionRectItem"
  /\ ZeroExtent(items[current])
  /\ handle_mouse_release(handle_mouse_press(Cur, <<10, 10>>, None),
                          <<10, 10>>).result = "commit"

----------------------------------------------------------------------------
\* The coordinates a property follows a pure function of the geometry at
\* are those of -MaxCoord..MaxCoord, and their halves.
MaxCoord == 70

Coords == (-MaxCoord)..MaxCoord

\* C16: snap_position takes each coordinate by itself to a multiple of
\* GRID_SIZE at most half a cell away, a coordinate halfway between two
\* multiples to the even one, and changes no point it returned: the anchor
\* every drafting tool holds is a point snap_position leaves as it is.
C16_SnapNearestIdempotent ==
  /\ \A n \in (-2 * MaxCoord)..(2 * MaxCoord) :
       \E g \in {snap_coordinate(n, 2)} :
         /\ g % GRID_SIZE = 0
         /\ Abs(2 * g - n) <= GRID_SIZE
         /\ Abs(2 * g - n) = GRID_SIZE => (g \div GRID_SIZE) % 2 = 0
         /\ snap_coordinate(g, 1) = g
  /\ \A p \in Points \cup {pointer} :
       \E g \in {snap_position(p)} :
         /\ IsNearestGrid(g, p)
         /\ snap_position(g) = g
         /\ \A x \in {-40, 0, 97} :
              /\ snap_position(<<p[1], x>>)[1] = g[1]
              /\ snap_position(<<x, p[2]>>)[2] = g[2]
  /\ \A t \in AllTools \ AttachmentTools :
       tool_start[t] # NoPoint => snap_position(tool_start[t]) = tool_start[t]

\* A press at (97,3) has anchored the wall tool at (100,0).
C16_Witness ==
  /\ active_tool = "WALL"
  /\ pointer = <<97, 3>>
  /\ preview_item["WALL"] \in Range(scene)
  /\ tool_start["WALL"] = <<100, 0>>
  /\ snap_position(pointer) = tool_start["WALL"]
  /\ snap_position(tool_start["WALL"]) = tool_start["WALL"]

----------------------------------------------------------------------------
\* The positions a tool is handed: those of Points, raw and snapped.
ToolPoints == Points \cup {snap_position(p) : p \in Points}

\* C17: apply_ortho returns pos as it is when the constraint is off or the
\* origin is None; otherwise (pos.x, origin.y) when |dx| >= |dy| and
\* (origin.x, pos.y) when |dx| < |dy|, a point that shares a coordinate with
\* the origin.  A move of the wall tool under the constraint leaves the
\* preview's end at that point.
C17_ApplyOrtho ==
  /\ \A pos \in ToolPoints :
       /\ \A origin \in ToolPoints \cup {NoPoint} :
            apply_ortho(FALSE, pos, origin) = pos
       /\ apply_ortho(TRUE, pos, NoPoint) = pos
       /\ \A origin \in ToolPoints :
            \E r \in {apply_ortho(TRUE, pos, origin)} :
              /\ Abs(pos[1] - origin[1]) >= Abs(pos[2] - origin[2])
                   => r = <<pos[1], origin[2]>>
              /\ Abs(pos[1] - origin[1]) < Abs(pos[2] - origin[2])
                   => r = <<origin[1], pos[2]>>
              /\ r[1] = origin[1] \/ r[2] = origin[2]
  /\ (~closed /\ active_tool = "WALL" /\ preview_item["WALL"] # None) =>
       \A pos \in Points :
         \E r \in {handle_mouse_move(Cur, pos)} :
           \E end \in {r.items[r.preview["WALL"]].geom.end} :
             /\ r.result = "moved"
             /\ end = apply_ortho(ortho_active, snap_position(pos), tool_start["WALL"])
             /\ ortho_active =>
                  end[1] = tool_start["WALL"][1] \/ end[2] = tool_start["WALL"][2]

\* Under the constraint, with the wall tool anchored at (0,0), a move to
\* (50,60), which snaps to (50,50), leaves the preview's end at (50,0).
C17_Witness ==
  /\ ~closed
  /\ ortho_active
  /\ active_tool = "WALL"
  /\ preview_item["WALL"] \in Range(scene)
  /\ tool_start["WALL"] = <<0, 0>>
  /\ handle_mouse_move(Cur, <<50, 60>>).items[preview_item["WALL"]].geom.end = <<50, 0>>

----------------------------------------------------------------------------
\* C18: with LINE active and the orthogonal constraint active, a press at
\* (0,0) followed by a move to (50,60) leaves the preview line's end at (0,60).
C18_LinePreviewOrtho ==
  (~closed /\ active_tool = "LINE" /\ ortho_active) =>
    \E a \in {handle_mouse_press(Cur, <<0, 0>>, None)} :
      handle_mouse_move(a, <<50, 60>>).items[a.preview["LINE"]].geom.p2 = <<0, 60>>

\* C18, as the code has it: the dispatcher snaps (50,60) to (50,50) before
\* the tool sees it, |dx| = |dy| resolves to horizontal and the preview line
\* goes from (0,0) to (50,0); handed (50,60) itself, the tool's on_move
\* leaves the end at (0,60).
C18_LinePreviewOrthoSnapped ==
  (~closed /\ active_tool = "LINE" /\ ortho_active) =>
    \E a \in {handle_mouse_press(Cur, <<0, 0>>, None)} :
      /\ a.preview["LINE"] \in Range(a.scene)
      /\ handle_mouse_move(a, <<50, 60>>).items[a.preview["LINE"]].geom
           = [p1 |-> <<0, 0>>, p2 |-> <<50, 0>>]
      /\ on_move(a, "LINE", <<50, 60>>).items[a.preview["LINE"]].geom
           = [p1 |-> <<0, 0>>, p2 |-> <<0, 60>>]

\* The line tool holds a preview anchored at (0,0) under the constraint, and
\* a move to (50,60) leaves the preview's end at (50,0).
C18_Witness ==
  /\ ~closed
  /\ active_tool = "LINE"
  /\ ortho_active
  /\ tool_start["LINE"] = <<0, 0>>
  /\ preview_item["LINE"] \in Range(scene)
  /\ handle_mouse_move(Cur, <<50, 60>>).items[preview_item["LINE"]].geom.p2 = <<50, 0>>

----------------------------------------------------------------------------
\* The points of the grid that walls go between
GridPoints == {snap_position(p) : p \in Points}

\* (pos - a) . (b - a)
Dot(a, b, pos) ==
  (pos[1] - a[1]) * (b[1] - a[1]) + (pos[2] - a[2]) * (b[2] - a[2])

\* The point r = <<xn / d, yn / d>> is a + t * (b - a) for some t of [0,1].
OnSegment(r, a, b) ==
  LET ux == r[1] - a[1] * r[3]
      uy == r[2] - a[2] * r[3]
      dx == b[1] - a[1]
      dy == b[2] - a[2]
  IN  /\ r[3] > 0
      /\ ux * dy - uy * dx = 0
      /\ 0 <= ux * dx + uy * dy
      /\ ux * dx + uy * dy <= r[3] * Hypot2(a, b)
      /\ a = b => (ux = 0 /\ uy = 0)

\* C19: project_point returns a point of the closed segment from start to
\* end: the start for a segment of length zero, the nearer end for a
\* position beyond an end, and otherwise the foot of the perpendicular from
\* the position.  Every attachment of the scene is on the centerline of a
\* wall of the scene.
C19_ProjectOnSegment ==
  /\ \A a \in GridPoints : \A b \in GridPoints : \A pos \in Points :
       \E r \in {project_point(a, b, pos)} : \E dot \in {Dot(a, b, pos)} :
         /\ OnSegment(r, a, b)
         /\ a = b => r = <<a[1], a[2], 1>>
         /\ a # b =>
              /\ dot <= 0 => r = <<a[1], a[2], 1>>
              /\ dot >= Hypot2(a, b) => r = <<b[1], b[2], 1>>
              /\ (0 < dot /\ dot < Hypot2(a, b)) =>
                   (pos[1] * r[3] - r[1]) * (b[1] - a[1])
                     + (pos[2] * r[3] - r[2]) * (b[2] - a[2]) = 0
  /\ \A i \in Range(scene) :
       items[i].cls \in AttachmentClasses =>
         \E w \in Walls(Cur) :
           OnSegment(items[i].geom.pos, items[w].geom.start, items[w].geom.end)

\* A switch sits on the wall from (0,0) to (100,0) where the press at (97,3)
\* projects to, and a press at (130,-20), beyond the wall's end, puts one at
\* that end.
C19_Witness ==
  /\ ~closed
  /\ active_tool = "SWITCH"
  /\ pointer = <<97, 3>>
  /\ current \in Shapes(Cur)
  /\ items[current].cls = "SwitchItem"
  /\ items[current].geom.pos = <<97, 0, 1>>
  /\ Cardinality(Walls(Cur)) = 1
  /\ \A w \in Walls(Cur) : items[w].geom = [start |-> <<0, 0>>, end |-> <<100, 0>>]
  /\ \E r \in {handle_mouse_press(Cur, <<130, -20>>, None)} :
       r.items[r.current].geom.pos = <<100, 0, 1>>

----------------------------------------------------------------------------
\* The place of item i in scene.items(): 1 for the item added last.
IterationPlace(m, i) == Len(m.scene) + 1 - (CHOOSE k \in 1..Len(m.scene) : m.scene[k] = i)

\* C20: nearest_wall_projection returns None exactly when the scene holds no
\* wall; otherwise a wall of the scene with the projection of pos onto its
\* centerline, no wall being nearer to pos, and every other wall as near
\* coming later in scene.items().  Shapes that are no walls do not count.
C20_NearestWall ==
  \A pos \in Points :
    \E r \in {nearest_wall_projection(Cur, pos)} :
      /\ r = NoHit <=> Walls(Cur) = {}
      /\ r # NoHit =>
           /\ r[1] \in Walls(Cur)
           /\ r[2] = project_point(items[r[1]].geom.start, items[r[1]].geom.end, pos)
           /\ \A w \in Walls(Cur) \ {r[1]} :
                /\ ~FracLess(WallDist2(Cur, w, pos), WallDist2(Cur, r[1], pos))
                /\ ~FracLess(WallDist2(Cur, r[1], pos), WallDist2(Cur, w, pos))
                     => IterationPlace(Cur, r[1]) < IterationPlace(Cur, w)

\* Two walls of the scene are as near to (50,40) as each other, a switch
\* was added after them, and the wall added later is the one found.
C20_Witness ==
  /\ Cardinality(Walls(Cur)) = 2
  /\ items[scene[Len(scene)]].cls = "SwitchItem"
  /\ \E w1 \in Walls(Cur) : \E w2 \in Walls(Cur) :
       /\ IterationPlace(Cur, w1) < IterationPlace(Cur, w2)
       /\ items[w1].geom # items[w2].geom
       /\ WallDist2(Cur, w1, <<50, 40>>) = <<40 * 40, 1>>
       /\ WallDist2(Cur, w2, <<50, 40>>) = <<40 * 40, 1>>
       /\ nearest_wall_projection(Cur, <<50, 40>>) = <<w1, <<50, 0, 1>>>>

----------------------------------------------------------------------------
\* C21: with no tool active, a press hit-tests the scene at the pointer
\* position itself, not at a grid-snapped position, and calls select with
\* the item found there or with None; a move and a release change nothing.
C21_PressSelectsAtPointer ==
  (~closed /\ active_tool = NoTool) =>
    \A pos \in Points :
      /\ tool_position(Cur, pos) = pos
      /\ \A hit \in ItemAt(Cur, tool_position(Cur, pos)) :
           Core(handle_mouse_press(Cur, pos, hit)) = Core(select(Cur, hit))
      /\ Core(handle_mouse_move(Cur, pos)) = Cur
      /\ Core(handle_mouse_release(Cur, pos)) = Cur

----------------------------------------------------------------------------
\* C22: the dispatcher hands a drafting tool (WALL, WINDOW, DOOR, LINE,
\* RECTANGLE, CIRCLE) the nearest grid point of the pointer position on every
\* press, move and release: the anchor, the preview and the committed shape
\* are built from grid points.  It hands SWITCH and OUTLET the position as it
\* is: on the wall from (0,0) to (100,0) a move and a press at (97,3) put the
\* attachment at (97,0).
C22_ToolPositionPolicy ==
  (~closed /\ active_tool # NoTool) =>
    \A pos \in Points :
      \E at \in {IF active_tool \in AttachmentTools THEN pos ELSE snap_position(pos)} :
        /\ handle_mouse_press(Cur, pos, None) = on_press(Cur, active_tool, at)
        /\ handle_mouse_move(Cur, pos) = on_move(Cur, active_tool, at)
        /\ handle_mouse_release(Cur, pos) = on_release(Cur, active_tool, at)
        /\ active_tool \notin AttachmentTools =>
             \E a \in {handle_mouse_press(Cur, pos, None)} :
               /\ IsNearestGrid(at, pos)
               /\ a.start[active_tool] = at
               /\ \A q \in PlanPoints \cup {<<50, 60>>} :
                    /\ handle_mouse_move(a, q).items[a.preview[active_tool]].geom
                         = Drafted(a, active_tool, snap_position(q), NoPen).geom
                    /\ \E r \in {handle_mouse_release(a, q)} :
                         r.items[r.current].geom
                           = Drafted(a, active_tool, snap_position(q), NoPen).geom
        /\ (active_tool = "WALL" /\ pos = <<97, 3>>) =>
             \A s \in palette \cap AttachmentTools :
               \E a \in {activate_tool(
                           handle_mouse_release(
                             handle_mouse_press(Cur, <<0, 0>>, None), pos), s)} :
                 /\ \E r \in {handle_mouse_move(a, pos)} :
                      r.items[r.preview[s]].geom.pos = <<97, 0, 1>>
                 /\ \E r \in {handle_mouse_press(a, pos, None)} :
                      r.items[r.current].geom.pos = <<97, 0, 1>>

\* A drafting tool is anchored, its preview in the scene, and a press at
\* (97,3) anchors it at (100,0); or an attachment tool is active over a
\* wall and a press at (97,3) is handled where it is.
C22_Witness ==
  /\ ~closed
  /\ active_tool # NoTool
  /\ IF active_tool \in AttachmentTools
     THEN /\ Walls(Cur) # {}
          /\ handle_mouse_press(Cur, <<97, 3>>, None).result = "commit"
     ELSE /\ preview_item[active_tool] \in Range(scene)
          /\ tool_start[active_tool] = snap_position(pointer)
          /\ handle_mouse_press(Cur, <<97, 3>>, None).start[active_tool] = <<100, 0>>

----------------------------------------------------------------------------
\* C23: whichever call of a press, a move or a release raises, the handler
\* catches the failure, reports it ("Mouse ... failed") and returns True: no
\* failure leaves a mouse handler.
C23_FailuresCaught ==
  ~closed =>
    \A pos \in Points : \A fault \in ToolFaults :
      /\ \A hit \in ItemAt(Cur, tool_position(Cur, pos)) :
           \E r \in {handle_mouse_press_raising(Cur, pos, hit, fault)} :
             /\ r.result # "raised"
             /\ (fault = 1 \/ (active_tool # NoTool /\
                   on_press_raising(Cur, active_tool, tool_position(Cur, pos),
                                    fault - 1).result = "raised")) =>
                  /\ r.result = "caught"
                  /\ r.report = "Mouse press failed"
                  /\ Handled(r)
      /\ \E r \in {handle_mouse_move_raising(Cur, pos, fault)} :
           /\ r.result # "raised"
           /\ (active_tool # NoTool /\ (fault = 1 \/
                 on_move_raising(Cur, active_tool, tool_position(Cur, pos),
                                 fault - 1).result = "raised")) =>
                /\ r.result = "caught"
                /\ r.report = "Mouse move failed"
                /\ Handled(r)
      /\ \E r \in {handle_mouse_release_raising(Cur, pos, fault)} :
           /\ r.result # "raised"
           /\ (active_tool # NoTool /\ (fault = 1 \/
                 on_release_raising(Cur, active_tool, tool_position(Cur, pos),
                                    fault - 1).result = "raised")) =>
                /\ r.result = "caught"
                /\ r.report = "Mouse release failed"
                /\ Handled(r)

\* The scene.addItem of a press raised: the tool holds a preview that is
\* not in the scene, and the editor goes on; the cancel of the release that
\* follows can raise as well.
C23_Witness ==
  /\ ~closed
  /\ active_tool \notin AttachmentTools \cup {NoTool}
  /\ preview_item[active_tool] # None
  /\ preview_item[active_tool] \notin Range(scene)
  /\ handle_mouse_release_raising(Cur, pointer, 4).result = "caught"

----------------------------------------------------------------------------
\* C24: activate_tool with a name that is no key of self.tools reports
\* "Unrecognized tool" and changes nothing: the active tool, its anchor and
\* preview, the scene, the items, the selection and both stacks are as
\* before.
C24_UnknownToolIgnored ==
  \A name \in ToolNames \ ToolsOf(build) :
    \E r \in {activate_tool(Cur, name)} :
      /\ r.result = "unknown"
      /\ r.report = "Unrecognized tool"
      /\ r.active = active_tool
      /\ r.start = tool_start
      /\ r.preview = preview_item
      /\ r.scene = scene
      /\ r.items = items
      /\ r.current = current
      /\ r.previous_pen = previous_pen
      /\ r.undo = undo_stack
      /\ r.redo = redo_stack
      /\ Core(r) = Cur

\* A gesture is in progress over a scene with a selected shape and a
\* history, and the user enters a name that is no tool.
C24_Witness ==
  /\ ~closed
  /\ active_tool # NoTool
  /\ preview_item[active_tool] \in Range(scene)
  /\ current \in Shapes(Cur)
  /\ undo_stack # <<>>
  /\ activate_tool(Cur, "BOGUS").result = "unknown"

----------------------------------------------------------------------------
\* C25: each of the eight names WALL, WINDOW, DOOR, SWITCH, OUTLET, LINE,
\* RECTANGLE and CIRCLE is a key of self.tools: activate_tool with any of
\* them makes that tool the active tool and reports nothing.
C25_EightToolsResolve ==
  ~closed =>
    \A name \in AllTools :
      \E r \in {activate_tool(Cur, name)} :
        /\ r.result = "switched"
        /\ r.active = name
        /\ r.report = ""

----------------------------------------------------------------------------
\* The pen of item i while it is not selected: the pen its class or its
\* tool gave it.
NormalPen(m, i) ==
  IF \E t \in AllTools : m.preview[t] = i
  THEN PreviewPen(m.items[i].cls)
  ELSE ClassPen(m.items[i].cls)

\* select(x), select(None), n times
RECURSIVE SelectCycles(_, _, _)
SelectCycles(m, x, n) ==
  IF n = 0 THEN m ELSE SelectCycles(select(select(m, x), None), x, n - 1)

\* C26: selection leaves no trace on a shape's pen.  select(x) followed by
\* select(None) leaves every item as it was before x was selected, any
\* number of times over; select(x) for the x that is selected already ends
\* in the state one select(x) ends in; and in every state the editor
\* reaches, every item that is not selected has the pen it was made with and
\* the selected one is held with that pen as the pen to restore.
C26_SelectionNoDrift ==
  /\ \A x \in Range(scene) :
       /\ \E d \in {select(Cur, None)} :
            \A n \in 1..(MaxRun + 1) :
              \E r \in {SelectCycles(d, x, n)} :
                /\ r.items = d.items
                /\ r.current = None
                /\ r.previous_pen = NoPen
       /\ \E r \in {select(Cur, x)} :
            /\ r.current = x
            /\ r.items[x].pen = HighlightPen(build, r.previous_pen)
            /\ Core(select(r, x)) = Core(r)
            /\ Core(select(select(r, x), x)) = Core(r)
            /\ select(r, None).items[x].pen = r.previous_pen
  /\ \A i \in DOMAIN items :
       IF i = current
       THEN /\ previous_pen = NormalPen(Cur, i)
            /\ items[i].pen = HighlightPen(build, previous_pen)
       ELSE items[i].pen = NormalPen(Cur, i)

\* A shape was selected by its commit and deselected by the undo that took
\* it out of the scene, beside a shape that lost the selection to it:
\* both have the pens they were made with.
C26_Witness ==
  /\ current = None
  /\ shown = None
  /\ previous_pen = NoPen
  /\ Shapes(Cur) # {}
  /\ redo_stack # <<>>
  /\ Last(redo_stack)[1].fn = "add"
  /\ Last(redo_stack)[1].item \notin Range(scene)
  /\ \A i \in DOMAIN items : items[i].pen = ClassPen(items[i].cls)

----------------------------------------------------------------------------
\* C27: the label of every wall, the preview and the committed ones, reads
\* the length of the wall's centerline, the distance from its start to its
\* end, with two decimals.
C27_LabelShowsLength ==
  \A i \in DOMAIN items :
    items[i].cls = "WallItem" =>
      label_text(items[i].geom.start, items[i].geom.end)
        = Fixed2(Hundredths(items[i].geom.start, items[i].geom.end))

----------------------------------------------------------------------------
\* The shapes that were committed and can still be seen or come back: those
\* of the scene and those the history entries hold.
Kept(m) ==
  (Shapes(m)
     \cup {m.undo[k][j].item : k \in 1..Len(m.undo), j \in 1..2}
     \cup {m.redo[k][j].item : k \in 1..Len(m.redo), j \in 1..2}) \ {None}

\* The editor after one more event: a press, a move or a release anywhere,
\* a cancel, a selection, a deletion, undo, redo, a tool switch, the close.
AfterEvent(m) ==
  {handle_mouse_press(m, pos, None) : pos \in Points}
    \cup {handle_mouse_move(m, pos) : pos \in Points}
    \cup {handle_mouse_release(m, pos) : pos \in Points}
    \cup {cancel(m, t) : t \in AllTools}
    \cup {select(m, x) : x \in Range(m.scene) \cup {None}}
    \cup {activate_tool(m, name) : name \in ToolNames}
    \cup {delete_selected(m), undo(m, 0), closeEvent(m)}
    \cup (IF m.build = "codex" THEN {redo(m, 0)} ELSE {})

\* C28: no event changes the defining geometry of a committed shape: after
\* a press, a move, a release, a cancel, a selection, a deletion, an undo or
\* a redo, every committed shape has the class and the geometry it had; and
\* the shape an undo or a redo puts back into the scene is the object that
\* was taken out, with the geometry it had then.
C28_CommittedGeometryFixed ==
  ~closed =>
    /\ \A r \in AfterEvent(Cur) : \A i \in Kept(Cur) :
         /\ r.items[i].cls = items[i].cls
         /\ r.items[i].geom = items[i].geom
    /\ \A r \in {undo(Cur, 0)} \cup (IF build = "codex" THEN {redo(Cur, 0)} ELSE {}) :
         /\ Shapes(r) \ Shapes(Cur) \subseteq Kept(Cur)
         /\ \A i \in Shapes(r) \ Shapes(Cur) : r.items[i].geom = items[i].geom

\* The undo of a deletion has put the deleted shape back into the scene and
\* selected it, while a gesture of the active tool is in progress.
C28_Witness ==
  /\ ~closed
  /\ redo_stack # <<>>
  /\ Last(redo_stack)[1].fn = "remove"
  /\ Last(redo_stack)[1].item \in Shapes(Cur)
  /\ current = Last(redo_stack)[1].item
  /\ active_tool # NoTool
  /\ preview_item[active_tool] \in Range(scene)

----------------------------------------------------------------------------
\* C29: a drafting tool that holds no preview (it was never pressed, or its
\* gesture was committed or cancelled, a switch to another tool and back
\* included) is idle: a release adds no shape to the scene and pushes no
\* history entry.
C29_ReleaseOnlyFromPreviewing ==
  (~closed /\ active_tool \notin AttachmentTools \cup {NoTool}
           /\ preview_item[active_tool] = None) =>
    \A pos \in Points :
      \E r \in {handle_mouse_release(Cur, pos)} :
        /\ r.result = "idle"
        /\ r.scene = scene
        /\ r.undo = undo_stack

----------------------------------------------------------------------------
\* C30: SWITCH and OUTLET hold no preview while idle: after a press that
\* commits an attachment the tool holds no preview and its preview is out of
\* the scene, and a move while the tool holds no preview puts none into the
\* scene.
C30_AttachmentIdleNoPreview ==
  (~closed /\ active_tool \in AttachmentTools) =>
    \A pos \in Points :
      /\ \E r \in {handle_mouse_press(Cur, pos, None)} :
           r.result = "commit" =>
             /\ r.preview[active_tool] = None
             /\ preview_item[active_tool] \notin Range(r.scene)
      /\ preview_item[active_tool] = None =>
           \E r \in {handle_mouse_move(Cur, pos)} :
             /\ r.preview[active_tool] = None
             /\ r.scene = scene

----------------------------------------------------------------------------
\* The preview items of the scene: its items that some tool holds as its
\* preview.
ScenePreviews(m) == {i \in Range(m.scene) : \E t \in AllTools : m.preview[t] = i}

\* C31: every tool that is not the active tool holds no preview; the scene
\* holds at most one preview item, and the one it holds is the preview of
\* the active tool.
C31_OnlyActiveToolPreviews ==
  /\ \A t \in AllTools : t # active_tool => preview_item[t] = None
  /\ Cardinality(ScenePreviews(Cur)) <= 1
  /\ \A i \in ScenePreviews(Cur) :
       active_tool # NoTool /\ preview_item[active_tool] = i

\* The active tool's preview is in the scene after the user came from
\* another tool, whose gesture the switch cancelled: that tool is anchored
\* and holds no preview.
C31_Witness ==
  /\ ~closed
  /\ active_tool # NoTool
  /\ preview_item[active_tool] \in Range(scene)
  /\ \E t \in AllTools \ {active_tool} :
       tool_start[t] # NoPoint /\ preview_item[t] = None

----------------------------------------------------------------------------
\* The action act can be run on m: the shape it removes is in the scene,
\* the shape it adds is not.
Applicable(m, act) ==
  /\ act.fn = "remove" => act.item \in Range(m.scene)
  /\ act.fn = "add" => act.item \notin Range(m.scene)

\* C32: after any interleaving of tool commits, deletions, undo and redo,
\* the action that undo() would run and the action that redo() would run
\* are applicable: a shape to remove is in the scene, a shape to add is not;
\* and the entry the call moves to the other stack is applicable after it.
C32_ReplayApplicable ==
  /\ undo_stack # <<>> =>
       /\ Applicable(Cur, Last(undo_stack)[1])
       /\ \E u \in {undo(Cur, 0)} :
            /\ u.result = "done"
            /\ u.redo # <<>> => Applicable(u, Last(u.redo)[1])
            /\ u.undo # <<>> => Applicable(u, Last(u.undo)[1])
  /\ redo_stack # <<>> =>
       /\ Applicable(Cur, Last(redo_stack)[1])
       /\ \E r \in {redo(Cur, 0)} :
            /\ r.result = "done"
            /\ Applicable(r, Last(r.undo)[1])
            /\ r.redo # <<>> => Applicable(r, Last(r.redo)[1])

\* A shape was committed and then deleted: the undo stack holds its
\* creation under its deletion, undo() will put the shape back, and another
\* shape is in the scene.
C32_Witness ==
  /\ Len(undo_stack) >= 2
  /\ Last(undo_stack)[1].fn = "add"
  /\ Last(undo_stack)[1].item \notin Range(scene)
  /\ \E k \in 1..(Len(undo_stack) - 1) :
       undo_stack[k][1] = Action("remove", Last(undo_stack)[1].item)
  /\ Shapes(Cur) # {}
  /\ Last(undo_stack)[1].item \in Range(undo(Cur, 0).scene)

----------------------------------------------------------------------------
\* The items that carry the selection highlight: those whose pen has the
\* colour select gives the highlight pen.
Highlighted(m) ==
  {i \in DOMAIN m.items : m.items[i].pen.color = HighlightPen(m.build, NoPen).color}

\* C33: at most one item carries the selection highlight, and the item that
\* does is selection.current; every item that is not current has the pen it
\* was made with, whether it is in the scene or held by the history.
C33_SingleHighlight ==
  /\ Cardinality(Highlighted(Cur)) <= 1
  /\ Highlighted(Cur) \subseteq {current}
  /\ current # None => Highlighted(Cur) = {current}
  /\ \A i \in DOMAIN items \ {current} :
       /\ items[i].pen = NormalPen(Cur, i)
       /\ items[i].pen.color # HighlightPen(build, NoPen).color

\* The shape committed last carries the highlight, beside a shape that
\* carried it before and has its own pen again.
C33_Witness ==
  /\ Cardinality(Shapes(Cur)) >= 2
  /\ current \in Shapes(Cur)
  /\ Highlighted(Cur) = {current}
  /\ Len(undo_stack) >= 2
  /\ \E i \in Shapes(Cur) \ {current} :
       /\ \E k \in 1..Len(undo_stack) : undo_stack[k][1] = Action("remove", i)
       /\ items[i].pen = ClassPen(items[i].cls)

----------------------------------------------------------------------------
\* C34: select hands on_change one value, the new selection.current; an
\* event that does not call select leaves selection.current as it is, and
\* an event that calls it ends with the value handed over last equal to
\* selection.current.  Once select has been called, the value the observer
\* was given last is selection.current.
C34_ObserverFollowsCurrent ==
  /\ \A x \in Range(scene) \cup {None} :
       \E r \in {select(Cur, x)} :
         /\ r.notified = <<x>>
         /\ r.current = x
         /\ r.shown = x
  /\ ~closed =>
       \A r \in AfterEvent(Cur) :
         IF r.notified = <<>>
         THEN r.current = current /\ r.shown = shown
         ELSE /\ Len(r.notified) = 1
              /\ r.notified[1] = r.current
              /\ r.shown = r.current
  /\ shown # Never => shown = current

\* The observer was told of a shape at its commit and of None at its
\* deletion; the undo of the deletion will tell it of the shape again.
C34_Witness ==
  /\ ~closed
  /\ shown = None
  /\ current = None
  /\ undo_stack # <<>>
  /\ Last(undo_stack)[1].fn = "add"
  /\ undo(Cur, 0).notified = <<Last(undo_stack)[1].item>>
  /\ undo(Cur, 0).shown = undo(Cur, 0).current

====
